---- MODULE Spec2Model ----
(***************************************************************************)
(* Download orchestrator of Estrategia Downloader Pro (downloader.py):     *)
(* DownloadManager.start_downloads as a state machine, one action per      *)
(* statement group between two points where another thread (the UI) can    *)
(* call request_cancel or where a collaborator (aiohttp, Playwright, the   *)
(* processors, AuthManager) returns or raises (Spec); and the stores of    *)
(* config_manager.py, each with its files and with the stop and restart    *)
(* of the process: ProgressManager (SpecLedger), ConfigManager's           *)
(* configuration file (SpecConfig), CourseUrlManager and the callers of    *)
(* get_all (SpecQueue), the credential and validate (SpecCred).            *)
(***************************************************************************)
EXTENDS Integers, Sequences, FiniteSets, TLC

\* ---------------------------------------------------------------- bounds
MaxCourses == 3
MaxRuns == 2
ItemsPerCourse == 1
MaxStamps == 2
MaxKeys == 2

\* ------------------------------------------------------------- constants
None == "None"
Resources == {"session", "playwright", "context"}
ValidateOutcomes == {"valid", "invalid", "raise"}
AuthOutcomes == {"ok", "no_credentials", "login_error"}
ProcOutcomes == {"True", "False", "Exception", "CancelledError"}
DownloadTypes == {"pdf", "video"}
\* the pdfConfig sections the stored configuration can hold: the default
\* one, the default one with its flag switched on, and one carrying the key
\* that _process_course reads
PdfConfigs ==
    { [baixarMateriaisDeVideo |-> FALSE],
      [baixarMateriaisDeVideo |-> TRUE],
      [baixarMateriaisDeVideo |-> FALSE, baixarExtrasComPdf |-> TRUE] }

VARIABLES
    config,             \* ConfigManager.config (the keys the run reads)
    urls,               \* CourseUrlManager.urls
    progress,           \* ProgressManager.progress: the keys mapped to True
    cancel_requested,   \* DownloadManager._cancel_event
    pc,                 \* position of the task running start_downloads
    run,                \* number of start_downloads calls so far
    progress_callback,  \* whether the caller passed a progress callback
    session,            \* local `session`: None, open or closed
    playwright,         \* local `playwright`
    browser,            \* the browser launched by _launch_browser
    context,            \* local `context`
    page,               \* local `page`
    total_courses,      \* local `total_courses`
    i,                  \* loop index of `enumerate(course_urls, 1)`
    success_count,      \* local `success_count`
    failed_count,       \* local `failed_count`
    processor_cancelled,\* request_cancel() was propagated to the processor
    pending,            \* value of the `return` that entered `finally`
    result,             \* what start_downloads gave its caller
    \* ---- history of the current run
    validateOutcome,    \* what config.validate() did in _health_check
    acquired,           \* resources acquired in this run
    closeAttempted,     \* cleanup steps attempted in this run
    closeFailed,        \* cleanup steps that raised in this run
    loginCount,         \* calls of AuthManager.ensure_logged_in
    authOutcome,        \* outcome of _perform_authentication
    handed,             \* course indices handed to a primary processor
    extrasHanded,       \* course indices handed to an extras processor
    results,            \* value of _process_course per attempted course
    callbackLog,        \* <<i, total>> per progress_callback call
    markedInRun,        \* ledger keys marked by processors in this run
    cancelBoundary,     \* first course whose boundary check came after the
                        \* cancellation request (0: none requested)
    trace,              \* processor invocations: starts and ends, in order
    callbackRaised,     \* a progress_callback call raised in this run
    \* ---- history of the manager
    cancelPc,           \* pc when request_cancel first set the flag
    cancelCourse,       \* <<run, i>> when request_cancel first set the flag
    startedAfterCancel, \* <<run, i>> handed to a processor after the request
    finishedAfterCancel,\* <<run, i>> whose processing ended after the request
    \* ---- ProgressManager and its files (config_manager.py)
    ledger_disk,        \* content of progress.json and progress.tmp
    lpc,                \* position inside mark_completed / clear / save_progress
    ledgerOp,           \* the ProgressManager call under way or last returned
    markedDone,         \* keys whose mark_completed returned since the last clear
    lprev,              \* progress.json as it was when save_progress began
    \* ---- ConfigManager and its files (config_manager.py)
    config_disk,        \* content of config.json, its .bak and its backups
    cpc,                \* position inside save_config / _load_config
    cmode,              \* who called save_config: the user or the repair
    lastSaved,          \* what the last successful save_config wrote
    saveOutcome,        \* how the last save_config call ended for its caller
    loadInfo,           \* what the last _load_config met and did
    \* ---- CourseUrlManager, its file and its callers (config_manager.py)
    queue_disk,         \* content of course-urls.json
    qheap,              \* the entry dicts alive in the process, by reference
    returned,           \* the list a caller holds from its last get_all
    qlive,              \* whether a CourseUrlManager has been constructed
    qop,                \* the last call on the queue store, or caller's step
    qarg,               \* the url that call was given
    qret,               \* what that call gave its caller
    qwrite,             \* how the _save_raw of that call ended
    qload,              \* what the last _load_urls met
    \* ---- the credential: key file, cipher, keyring (config_manager.py)
    key_file,           \* content of .key (0: the file is absent)
    cipher,             \* the key of ConfigManager.cipher
    keyring,            \* the system keyring: a token per email
    credOp,             \* the last call on the credential or of validate
    pwResult,           \* what that call gave, if get_password or set_password
    verrors,            \* the list of problems that call gave, if validate
    vok                 \* the flag that call gave, if validate

runVars == <<pc, run, progress_callback, session, playwright, browser, context,
             page, total_courses, i, success_count, failed_count,
             processor_cancelled, pending, result>>
histVars == <<validateOutcome, acquired, closeAttempted, closeFailed,
              loginCount, authOutcome, handed, extrasHanded, results,
              callbackLog, markedInRun, cancelBoundary>>
obsVars == <<trace, callbackRaised>>
cancelHist == <<cancelPc, cancelCourse, startedAfterCancel, finishedAfterCancel>>
ledgerVars == <<ledger_disk, lpc, ledgerOp, markedDone, lprev>>
cfgVars == <<config_disk, cpc, cmode, lastSaved, saveOutcome, loadInfo>>
queueVars == <<queue_disk, qheap, returned, qlive, qop, qarg, qret, qwrite,
               qload>>
credVars == <<key_file, cipher, keyring, credOp, pwResult, verrors, vok>>
storeVars == <<ledgerVars, cfgVars, queueVars, credVars>>
orchRest == <<cancel_requested, runVars, histVars, obsVars, cancelHist>>
vars == <<config, urls, progress, orchRest, storeVars>>

\* ------------------------------------------------------ pure operations
\* ConfigManager.get(section, key, default=...)
get(section, key, default) ==
    IF section \in DOMAIN config
    THEN IF key \in DOMAIN config[section] THEN config[section][key] ELSE default
    ELSE default

\* the top-level keys of the configuration whose values are dicts: what
\* isinstance(config[key], dict) says of the configurations of the model
Sections == {"pdfConfig", "videoConfig"}
is_section(key) == key \in Sections

\* ConfigManager.set(*keys, value=value) for one or two keys: a missing
\* intermediate key, or one that holds no dict, becomes an empty dict
\* before the value is stored under the last key
set(cfg, keys, value) ==
    LET put(d, key, v) ==
            [k \in DOMAIN d \cup {key} |-> IF k = key THEN v ELSE d[k]]
    IN  IF Len(keys) = 1 THEN put(cfg, keys[1], value)
        ELSE LET inner == IF keys[1] \in DOMAIN cfg /\ is_section(keys[1])
                          THEN cfg[keys[1]] ELSE <<>>
             IN  put(cfg, keys[1], put(inner, keys[2], value))

\* json.dump of a configuration: the document, as the set of its members
\* <<path, kind, text>>; a dict becomes an object, a str a quoted string and
\* a bool the literal true or false
json_dump(cfg) ==
    {<<<<k>>, IF is_section(k) THEN "object" ELSE "string",
              IF is_section(k) THEN "{" ELSE cfg[k]>> : k \in DOMAIN cfg}
    \cup UNION {{<<<<k, k2>>, "literal",
                   IF cfg[k][k2] THEN "true" ELSE "false">> :
                      k2 \in DOMAIN cfg[k]} :
                 k \in {k \in DOMAIN cfg : is_section(k)}}

\* json.load of a document: objects become dicts, quoted strings str and
\* the literals true and false bool
json_load_flat(doc) ==
    [k \in {d[1][1] : d \in {d \in doc : Len(d[1]) = 1}} |->
        LET e == CHOOSE d \in doc : d[1] = <<k>>
        IN  IF e[2] = "object" THEN <<>> ELSE e[3]]
json_load(doc) ==
    [k \in {d[1][1] : d \in {d \in doc : Len(d[1]) = 1}} |->
        LET e == CHOOSE d \in doc : d[1] = <<k>>
        IN  IF e[2] = "object"
            THEN [k2 \in {d[1][2] : d \in {d \in doc : Len(d[1]) = 2
                                                     /\ d[1][1] = k}} |->
                     (CHOOSE d \in doc : d[1] = <<k, k2>>)[3] = "true"]
            ELSE e[3]]

\* CourseUrlManager.get_all
get_all == urls

\* ProgressManager.is_completed / mark_completed on the in-memory ledger
is_completed(key) == key \in progress
mark_completed(ledger, key) == ledger \cup {key}

\* keys of the downloadable units of course c
KeysOf(c) == {<<c, m>> : m \in 1..ItemsPerCourse}

\* _health_check: validate() must say valid; an exception is caught -> False
health_check_ignored(v) == TRUE
health_check(v) == v = "valid"

\* `if not course_urls`
queue_is_empty_never(course_urls) == FALSE
queue_is_empty(course_urls) == Len(course_urls) = 0

\* the property cancel_requested as read at the course boundary
cancel_unobserved(flag) == FALSE
cancel_observed(flag) == flag

\* value of _process_course when the primary processor ended with `primary`
\* and no extras processor ran
primary_result(primary) == primary = "True"

\* value of _process_course when the primary processor returned True and the
\* extras processor ended with `extras`: an exception of the extras
\* processor reaches the except clauses of _process_course
extras_result_strict(extras) == extras = "True"
extras_result(extras) == extras \in {"True", "False"}

\* `if success and download_type == "pdf"` and `if baixar_extras`
wants_extras(success) ==
    /\ success
    /\ config.downloadType = "pdf"
    /\ get("pdfConfig", "baixarExtrasComPdf", FALSE)

\* lines 119-126: the course the loop reaches at index k of
\* enumerate(course_urls, 1)
course_item_reversed(k) == get_all[Len(get_all) + 1 - k]
course_item(k) == get_all[k]

\* lines 161-164: where the run goes after progress_callback; what the
\* callback raises is caught by `except Exception`
callback_next_uncaught(raises) == IF raises THEN "except" ELSE "loop"
callback_next(raises) == "loop"

\* an entry of the trace of processor invocations; ok of an end_primary
\* entry says the processor returned True, ok of an end_extras entry says
\* the processor returned (True or False) rather than raised
Event(ev, course, ok) == [ev |-> ev, course |-> course, ok |-> ok]

\* `return failed_count == 0`
run_result_all_done(succ, failed, total) == succ = total
run_result(succ, failed, total) == failed = 0

BoolStr(b) == IF b THEN "True" ELSE "False"

\* lines 102-119: the order of the statements of the try block up to the
\* course loop
try_block_login_first ==
    <<"authenticate", "open_session", "start_playwright", "launch_browser",
      "new_page", "loop">>
try_block ==
    <<"open_session", "start_playwright", "launch_browser", "new_page",
      "authenticate", "loop">>

\* the statement that follows `step` in the try block
after(step) ==
    LET k == CHOOSE k \in 1..Len(try_block) : try_block[k] = step
    IN  try_block[k + 1]

\* ------------------------------------------------------------------ files
\* a file is absent, holds a complete JSON document, or holds part of one
\* (an empty or truncated file, which json.load rejects)
Absent(empty) == [kind |-> "absent", data |-> empty]
Partial(empty) == [kind |-> "partial", data |-> empty]
Full(data) == [kind |-> "full", data |-> data]

\* Path.replace(src, dst): atomic rename over dst
replace(disk, src, dst, empty) ==
    IF src = dst THEN disk
    ELSE [disk EXCEPT ![dst] = disk[src], ![src] = Absent(empty)]

\* ProgressManager.PROGRESS_FILE and the temp_file of save_progress
PROGRESS_FILE == "progress.json"
temp_file_in_place == PROGRESS_FILE
temp_file == "progress.tmp"
LedgerFiles == {PROGRESS_FILE, temp_file}
NoOp == [op |-> "none", key |-> <<0, 0>>]

\* ConfigManager.CONFIG_FILE, the backup_path of save_config and the
\* backup_path of _backup_and_repair_config at time `timestamp`
CONFIG_FILE == <<"config.json">>
BAK_FILE == <<"config.json", "bak">>
backup_path(timestamp) == <<"config.json", timestamp, "bak">>
Timestamps == 1..MaxStamps
ConfigFiles == {CONFIG_FILE, BAK_FILE} \cup {backup_path(t) : t \in Timestamps}

\* ConfigManager._get_default_config, on the keys the model reads
DefaultConfig ==
    [downloadType |-> "pdf", pdfConfig |-> [baixarMateriaisDeVideo |-> FALSE]]
\* filler for a configuration that is not there, and for the data of a
\* file that holds no document
NoConfig ==
    [downloadType |-> "", pdfConfig |-> [baixarMateriaisDeVideo |-> FALSE]]
NoDoc == {}
NoLoad ==
    [kind |-> "none", stopped |-> FALSE, old |-> NoConfig, new |-> NoConfig,
     renameFailed |-> FALSE, writeFailed |-> FALSE,
     afterSave |-> FALSE, saved |-> NoConfig]

\* the ConfigManager has no call under way and no file on disk
ConfigIdle ==
    /\ config_disk = [f \in ConfigFiles |-> Absent(NoDoc)]
    /\ cpc = "idle"
    /\ cmode = "none"
    /\ lastSaved = [has |-> FALSE, data |-> NoConfig]
    /\ saveOutcome = "none"
    /\ loadInfo = NoLoad

\* ------------------------------------------------------- the course queue
Range(seq) == {seq[k] : k \in DOMAIN seq}

\* a URL as urlparse sees it: scheme, netloc (its labels), path (its
\* segments), and whether white space surrounds the text
Platform == <<"estrategiaconcursos", "com", "br">>
Url(scheme, netloc, path, ws) ==
    [scheme |-> scheme, netloc |-> netloc, path |-> path, ws |-> ws]
CoursePath(slug) == <<"app", "cursos", slug, "aulas">>
UrlA == Url("https", <<"www">> \o Platform, CoursePath("direito-1234"), FALSE)
UrlB == Url("https", <<"www">> \o Platform, CoursePath("portugues-5678"), FALSE)
\* a host that is not the platform's but carries its name
UrlLookalike ==
    Url("https", Platform \o <<"evil", "net">>, CoursePath("direito-1234"), FALSE)
NoUrl == Url("", <<>>, <<>>, FALSE)

\* the urls a caller of add_url may pass: a course url, the same with white
\* space around it, the lookalike, and one url per validation rule
AddInputs ==
    { UrlA, UrlLookalike,
      [UrlA EXCEPT !.ws = TRUE],
      [UrlA EXCEPT !.scheme = "ftp"],
      [UrlA EXCEPT !.netloc = <<"www", "example", "com">>],
      [UrlA EXCEPT !.path = <<"app", "aulas">>],
      [UrlA EXCEPT !.path = <<"app", "cursos", "direito-1234">>] }

\* str.strip()
strip(url) == [url EXCEPT !.ws = FALSE]

\* `sub in text`, on labels
contains(text, sub) ==
    \E k \in 0..(Len(text) - Len(sub)) :
        SubSeq(text, k + 1, k + Len(sub)) = sub

\* CourseUrlManager._validate_url, lines 609-626; surrounding white space
\* makes urlparse see no scheme or a path that does not end in /aulas
validate_url(url) ==
    /\ ~url.ws
    /\ url.scheme \in {"http", "https"}
    /\ contains(url.netloc, Platform)
    /\ \E k \in 1..(Len(url.path) - 1) : url.path[k] = "cursos"
    /\ Len(url.path) > 0 /\ url.path[Len(url.path)] = "aulas"

\* lines 586-591: slug.replace('-', ' ').title() without the trailing number
title_case(slug) ==
    CASE slug = "direito-1234" -> "Direito"
      [] slug = "portugues-5678" -> "Portugues"
      [] OTHER -> slug

\* CourseUrlManager._extract_title_from_url: the part before the first
\* 'aulas', else the last part with a hyphen and more than five characters
extract_title(url) ==
    LET parts == <<url.scheme, "host">> \o url.path
        marks == {k \in 1..Len(parts) : parts[k] = "aulas"}
        slugs == {k \in 1..Len(parts) :
                     parts[k] \in {"direito-1234", "portugues-5678"}}
        first == CHOOSE k \in marks : \A m \in marks : k <= m
        last == CHOOSE k \in slugs : \A m \in slugs : m <= k
    IN  IF marks # {} THEN title_case(parts[first - 1])
        ELSE IF slugs # {} THEN title_case(parts[last])
        ELSE "Curso Desconhecido"

\* an entry of the queue, {"url": ..., "title": ...}
Entry(url, title) == [url |-> url, title |-> title]
NoEntry == Entry(NoUrl, "")
NewEntry(url) == Entry(url, extract_title(url))

\* references to the entry dicts. The dicts of the queue are numbered in
\* queue order (self.urls is <<1, ..., n>>), the dicts only a caller still
\* holds come after them, and a dict nobody holds is collected
Refs == 1..(2 * Cardinality({UrlA, UrlB, UrlLookalike}) + 1)
Renumber(list, held, heap) ==
    LET kept == SelectSeq(held, LAMBDA r : r \notin Range(list))
        order == list \o kept
        rank(r) == CHOOSE k \in 1..Len(order) : order[k] = r
    IN  [urls |-> [k \in 1..Len(list) |-> k],
         returned |-> [k \in 1..Len(held) |-> rank(held[k])],
         heap |-> [r \in Refs |->
                     IF r <= Len(order) THEN heap[order[r]] ELSE NoEntry]]

\* the entries a list of references stands for
Entries(list, heap) == [k \in 1..Len(list) |-> heap[list[k]]]

\* an item of the JSON list of course-urls.json: a string (old format) or
\* an object with the members url and title (new format)
JsonString(url) == [kind |-> "string", url |-> url, title |-> ""]
JsonObject(url, title) == [kind |-> "object", url |-> url, title |-> title]
isinstance_str(item) == item.kind = "string"
\* json.dump of a list of entry dicts, and the dict json.load makes of an
\* object
dump_urls(entries) ==
    [k \in 1..Len(entries) |-> JsonObject(entries[k].url, entries[k].title)]
load_object(item) == Entry(item.url, item.title)

\* `any(c['url'] == url for c in self.urls)`
is_duplicate_never(entries, url) == FALSE
is_duplicate(entries, url) == \E k \in 1..Len(entries) : entries[k].url = url

\* _save_raw, lines 483-491: the file after the write ended as `outcome`;
\* open(..., 'w') empties the file before json.dump writes
WriteOutcomes == {"ok", "open_failed", "dump_failed"}
save_raw(disk, data, outcome) ==
    CASE outcome = "ok" -> Full(dump_urls(data))
      [] outcome = "open_failed" -> disk
      [] outcome = "dump_failed" -> Partial(<<>>)

\* the old-format files an earlier version left: the lists of the course
\* urls UrlA and UrlB without repetition
LegacyFiles ==
    {Full([k \in 1..Len(list) |-> JsonString(list[k])]) :
        list \in {l \in UNION {[1..n -> {UrlA, UrlB}] : n \in 1..2} :
                    \A j, k \in 1..Len(l) : j # k => l[j] # l[k]}}

NoQueueLoad ==
    [legacy |-> FALSE, items |-> <<>>, before |-> Absent(<<>>),
     second |-> FALSE]

\* no CourseUrlManager constructed yet and no file on disk
QueueIdle ==
    /\ queue_disk = Absent(<<>>)
    /\ qheap = [r \in Refs |-> NoEntry]
    /\ returned = <<>>
    /\ qlive = FALSE
    /\ qop = "none"
    /\ qarg = NoUrl
    /\ qret = "None"
    /\ qwrite = "none"
    /\ qload = NoQueueLoad

\* -------------------------------------------------------- the credential
\* an email as its parts, "@" being one of them; a falsy email is <<>>
Emails == {<<"user", "@", "example.com">>, <<"user.example.com">>}
Passwords == {"secret"}
\* a Fernet token: the key that encrypted it and the text it carries
Token(key, text) == [key |-> key, text |-> text]
NoToken == Token(0, "")
NoResult == [kind |-> "None", text |-> ""]
\* the download folders a user may configure, as path segments, and the
\* directories that exist on the machine
Folders ==
    { <<"home", "user", "Downloads", "Estrategia_PDFs">>,
      <<"mnt", "unplugged", "Estrategia_PDFs">> }
ExistingDirs == { <<"home", "user", "Downloads">> }
\* Path(folder).parent
parent(folder) == SubSeq(folder, 1, Len(folder) - 1)

\* the ConfigManager of the first process generated key 1 and wrote .key
CredIdle ==
    /\ key_file = 1
    /\ cipher = 1
    /\ keyring = [e \in Emails |-> NoToken]
    /\ credOp = [op |-> "none", kerr |-> FALSE, raised |-> FALSE]
    /\ pwResult = NoResult
    /\ verrors = <<>>
    /\ vok = FALSE

\* the ProgressManager has no call under way and no file on disk
LedgerIdle ==
    /\ ledger_disk = [f \in LedgerFiles |-> Absent({})]
    /\ lpc = "idle"
    /\ ledgerOp = NoOp
    /\ markedDone = {}
    /\ lprev = Absent({})

\* ------------------------------------------------------------ initial state
\* state after DownloadManager.__init__: configuration, queue and ledger as
\* loaded from disk, cancel flag clear, no run started
Init ==
    /\ config \in {[downloadType |-> t, pdfConfig |-> p] :
                      t \in DownloadTypes, p \in PdfConfigs}
    /\ \E n \in 0..MaxCourses : urls = [j \in 1..n |-> j]
    /\ progress = {}
    /\ cancel_requested = FALSE
    /\ pc = "idle"
    /\ run = 0
    /\ progress_callback = FALSE
    /\ session = None /\ playwright = None /\ browser = None
    /\ context = None /\ page = None
    /\ total_courses = 0 /\ i = 0 /\ success_count = 0 /\ failed_count = 0
    /\ processor_cancelled = FALSE
    /\ pending = None /\ result = None
    /\ validateOutcome = None
    /\ acquired = {} /\ closeAttempted = {} /\ closeFailed = {}
    /\ loginCount = 0 /\ authOutcome = None
    /\ handed = <<>> /\ extrasHanded = <<>> /\ results = <<>>
    /\ callbackLog = <<>> /\ markedInRun = {}
    /\ cancelBoundary = 0
    /\ trace = <<>> /\ callbackRaised = FALSE
    /\ cancelPc = None /\ cancelCourse = None
    /\ startedAfterCancel = {} /\ finishedAfterCancel = {}
    /\ LedgerIdle
    /\ ConfigIdle
    /\ QueueIdle
    /\ CredIdle

\* --------------------------------------------------------------- actions
\* request_cancel, callable from any thread at any moment
request_cancel ==
    /\ cancel_requested' = TRUE
    /\ IF cancel_requested
       THEN UNCHANGED <<cancelBoundary, cancelPc, cancelCourse>>
       ELSE /\ cancelBoundary' = i + 1
            /\ cancelPc' = pc
            /\ cancelCourse' = <<run, i>>
    /\ UNCHANGED obsVars
    /\ UNCHANGED storeVars
    /\ UNCHANGED <<config, urls, progress, runVars, startedAfterCancel,
                   finishedAfterCancel, validateOutcome, acquired,
                   closeAttempted, closeFailed, loginCount, authOutcome,
                   handed, extrasHanded, results, callbackLog, markedInRun>>

\* a caller starts start_downloads (the locals of the call are fresh)
start_downloads ==
    /\ pc \in {"idle", "done"}
    /\ run < MaxRuns
    /\ run' = run + 1
    /\ pc' = "health_check"
    /\ progress_callback' \in BOOLEAN
    /\ session' = None /\ playwright' = None /\ browser' = None
    /\ context' = None /\ page' = None
    /\ total_courses' = 0 /\ i' = 0 /\ success_count' = 0 /\ failed_count' = 0
    /\ processor_cancelled' = FALSE
    /\ pending' = None /\ result' = None
    /\ validateOutcome' = None
    /\ acquired' = {} /\ closeAttempted' = {} /\ closeFailed' = {}
    /\ loginCount' = 0 /\ authOutcome' = None
    /\ handed' = <<>> /\ extrasHanded' = <<>> /\ results' = <<>>
    /\ callbackLog' = <<>> /\ markedInRun' = {}
    /\ cancelBoundary' = IF cancel_requested THEN 1 ELSE 0
    /\ trace' = <<>> /\ callbackRaised' = FALSE
    /\ UNCHANGED storeVars
    /\ UNCHANGED <<config, urls, progress, cancel_requested, cancelHist>>

\* lines 79-82 with _health_check
HealthCheck ==
    /\ pc = "health_check"
    /\ \E v \in ValidateOutcomes :
        /\ validateOutcome' = v
        /\ IF health_check(v)
           THEN pc' = "get_urls" /\ UNCHANGED result
           ELSE pc' = "done" /\ result' = "False"
    /\ UNCHANGED obsVars
    /\ UNCHANGED storeVars
    /\ UNCHANGED <<config, urls, progress, cancel_requested, run,
                   progress_callback, session, playwright, browser, context,
                   page, total_courses, i, success_count, failed_count,
                   processor_cancelled, pending, acquired, closeAttempted,
                   closeFailed, loginCount, authOutcome, handed, extrasHanded,
                   results, callbackLog, markedInRun, cancelBoundary,
                   cancelHist>>

\* lines 84-98
GetCourseUrls ==
    /\ pc = "get_urls"
    /\ IF queue_is_empty(get_all)
       THEN pc' = "done" /\ result' = "False" /\ UNCHANGED total_courses
       ELSE pc' = try_block[1] /\ total_courses' = Len(get_all)
                                 /\ UNCHANGED result
    /\ UNCHANGED obsVars
    /\ UNCHANGED storeVars
    /\ UNCHANGED <<config, urls, progress, cancel_requested, run,
                   progress_callback, session, playwright, browser, context,
                   page, i, success_count, failed_count, processor_cancelled,
                   pending, histVars, cancelHist>>

\* an exception raised inside the try block of start_downloads
Raise == pc' = "except"

\* lines 102-106
OpenSession ==
    /\ pc = "open_session"
    /\ \E ok \in BOOLEAN :
        IF ok
        THEN session' = "open" /\ acquired' = acquired \cup {"session"}
                               /\ pc' = after("open_session")
        ELSE Raise /\ UNCHANGED <<session, acquired>>
    /\ UNCHANGED obsVars
    /\ UNCHANGED storeVars
    /\ UNCHANGED <<config, urls, progress, cancel_requested, run,
                   progress_callback, playwright, browser, context, page,
                   total_courses, i, success_count, failed_count,
                   processor_cancelled, pending, result, validateOutcome,
                   closeAttempted, closeFailed, loginCount, authOutcome,
                   handed, extrasHanded, results, callbackLog, markedInRun,
                   cancelBoundary, cancelHist>>

\* line 108
StartPlaywright ==
    /\ pc = "start_playwright"
    /\ \E ok \in BOOLEAN :
        IF ok
        THEN playwright' = "open" /\ acquired' = acquired \cup {"playwright"}
                                  /\ pc' = after("start_playwright")
        ELSE Raise /\ UNCHANGED <<playwright, acquired>>
    /\ UNCHANGED obsVars
    /\ UNCHANGED storeVars
    /\ UNCHANGED <<config, urls, progress, cancel_requested, run,
                   progress_callback, session, browser, context, page,
                   total_courses, i, success_count, failed_count,
                   processor_cancelled, pending, result, validateOutcome,
                   closeAttempted, closeFailed, loginCount, authOutcome,
                   handed, extrasHanded, results, callbackLog, markedInRun,
                   cancelBoundary, cancelHist>>

\* line 109 with _launch_browser: chromium.launch, then browser.new_context
LaunchBrowser ==
    /\ pc = "launch_browser"
    /\ \E step \in {"launch_fails", "new_context_fails", "ok"} :
        /\ browser' = IF step = "launch_fails" THEN None ELSE "open"
        /\ IF step = "ok"
           THEN context' = "open" /\ acquired' = acquired \cup {"context"}
                                  /\ pc' = after("launch_browser")
           ELSE Raise /\ UNCHANGED <<context, acquired>>
    /\ UNCHANGED obsVars
    /\ UNCHANGED storeVars
    /\ UNCHANGED <<config, urls, progress, cancel_requested, run,
                   progress_callback, session, playwright, page,
                   total_courses, i, success_count, failed_count,
                   processor_cancelled, pending, result, validateOutcome,
                   closeAttempted, closeFailed, loginCount, authOutcome,
                   handed, extrasHanded, results, callbackLog, markedInRun,
                   cancelBoundary, cancelHist>>

\* line 110
NewPage ==
    /\ pc = "new_page"
    /\ \E ok \in BOOLEAN :
        IF ok
        THEN page' = "open" /\ pc' = after("new_page")
        ELSE Raise /\ UNCHANGED page
    /\ UNCHANGED obsVars
    /\ UNCHANGED storeVars
    /\ UNCHANGED <<config, urls, progress, cancel_requested, run,
                   progress_callback, session, playwright, browser, context,
                   total_courses, i, success_count, failed_count,
                   processor_cancelled, pending, result, histVars, cancelHist>>

\* line 113 with _perform_authentication: a missing email or password raises
\* ValueError before AuthManager is built; ensure_logged_in may raise
PerformAuthentication ==
    /\ pc = "authenticate"
    /\ \E a \in AuthOutcomes :
        /\ authOutcome' = a
        /\ loginCount' = IF a = "no_credentials" THEN loginCount
                         ELSE loginCount + 1
        /\ IF a = "ok" THEN pc' = after("authenticate") ELSE Raise
    /\ UNCHANGED obsVars
    /\ UNCHANGED storeVars
    /\ UNCHANGED <<config, urls, progress, cancel_requested, run,
                   progress_callback, session, playwright, browser, context,
                   page, total_courses, i, success_count, failed_count,
                   processor_cancelled, pending, result, validateOutcome,
                   acquired, closeAttempted, closeFailed, handed,
                   extrasHanded, results, callbackLog, markedInRun,
                   cancelBoundary, cancelHist>>

\* lines 119-130: next element of enumerate(course_urls, 1), then the
\* cancellation check at the course boundary
LoopNext ==
    /\ pc = "loop"
    /\ IF i = total_courses
       THEN pc' = "report" /\ UNCHANGED i
       ELSE /\ i' = i + 1
            /\ pc' = IF cancel_observed(cancel_requested) THEN "report"
                     ELSE "process_course"
    /\ UNCHANGED obsVars
    /\ UNCHANGED storeVars
    /\ UNCHANGED <<config, urls, progress, cancel_requested, run,
                   progress_callback, session, playwright, browser, context,
                   page, total_courses, success_count, failed_count,
                   processor_cancelled, pending, result, histVars, cancelHist>>

\* lines 142 and 273-287: _process_course builds the processor, propagates a
\* cancellation already requested and awaits processor.process_course
ProcessCourse ==
    /\ pc = "process_course"
    /\ processor_cancelled' = cancel_requested
    /\ handed' = Append(handed, i)
    /\ startedAfterCancel' = IF cancel_requested
                             THEN startedAfterCancel \cup {<<run, i>>}
                             ELSE startedAfterCancel
    /\ pc' = "primary"
    /\ trace' = Append(trace, Event("start_primary", course_item(i), TRUE))
    /\ UNCHANGED callbackRaised
    /\ UNCHANGED storeVars
    /\ UNCHANGED <<config, urls, progress, cancel_requested, run,
                   progress_callback, session, playwright, browser, context,
                   page, total_courses, i, success_count, failed_count,
                   pending, result, validateOutcome, acquired, closeAttempted,
                   closeFailed, loginCount, authOutcome, extrasHanded, results,
                   callbackLog, markedInRun, cancelBoundary, cancelPc,
                   cancelCourse, finishedAfterCancel>>

\* a processor at work confirms an artifact written and marks its key
ProcessorMarks ==
    /\ pc \in {"primary", "extras"}
    /\ \E key \in KeysOf(course_item(i)) :
        /\ ~is_completed(key)
        /\ progress' = mark_completed(progress, key)
        /\ markedInRun' = markedInRun \cup {key}
    /\ UNCHANGED obsVars
    /\ UNCHANGED storeVars
    /\ UNCHANGED <<config, urls, cancel_requested, runVars, validateOutcome,
                   acquired, closeAttempted, closeFailed, loginCount,
                   authOutcome, handed, extrasHanded, results, callbackLog,
                   cancelBoundary, cancelHist>>

\* lines 144-157: _process_course has returned `ret`; count the course
CountCourse(ret) ==
    /\ success_count' = IF ret THEN success_count + 1 ELSE success_count
    /\ failed_count' = IF ret THEN failed_count ELSE failed_count + 1
    /\ results' = Append(results, ret)
    /\ finishedAfterCancel' = IF cancel_requested
                              THEN finishedAfterCancel \cup {<<run, i>>}
                              ELSE finishedAfterCancel
    /\ pc' = IF progress_callback THEN "callback" ELSE "loop"

\* lines 287-309: the primary processor ends; either the extras processor
\* is built and awaited (lines 290-307) or _process_course returns
PrimaryEnds ==
    /\ pc = "primary"
    /\ \E out \in ProcOutcomes :
        IF wants_extras(primary_result(out))
        THEN /\ pc' = "extras"
             /\ extrasHanded' = Append(extrasHanded, i)
             /\ trace' = trace \o
                   << Event("end_primary", course_item(i), TRUE),
                      Event("start_extras", course_item(i), TRUE) >>
             /\ processor_cancelled' = cancel_requested
             /\ UNCHANGED <<success_count, failed_count, results,
                            finishedAfterCancel>>
        ELSE /\ CountCourse(primary_result(out))
             /\ trace' = Append(trace, Event("end_primary", course_item(i),
                                              primary_result(out)))
             /\ UNCHANGED <<extrasHanded, processor_cancelled>>
    /\ UNCHANGED callbackRaised
    /\ UNCHANGED storeVars
    /\ UNCHANGED <<config, urls, progress, cancel_requested, run,
                   progress_callback, session, playwright, browser, context,
                   page, total_courses, i, pending, result, validateOutcome,
                   acquired, closeAttempted, closeFailed, loginCount,
                   authOutcome, handed, callbackLog, markedInRun,
                   cancelBoundary, cancelPc, cancelCourse, startedAfterCancel>>

\* lines 307-317: the extras processor ends and _process_course returns
ExtrasEnds ==
    /\ pc = "extras"
    /\ \E out \in ProcOutcomes :
        /\ CountCourse(extras_result(out))
        /\ trace' = Append(trace, Event("end_extras", course_item(i),
                                         out \in {"True", "False"}))
    /\ UNCHANGED callbackRaised
    /\ UNCHANGED storeVars
    /\ UNCHANGED <<config, urls, progress, cancel_requested, run,
                   progress_callback, session, playwright, browser, context,
                   page, total_courses, i, processor_cancelled, pending,
                   result, validateOutcome, acquired, closeAttempted,
                   closeFailed, loginCount, authOutcome, handed, extrasHanded,
                   callbackLog, markedInRun, cancelBoundary, cancelPc,
                   cancelCourse, startedAfterCancel>>

\* lines 160-164: the callback gets i / total_courses; what it raises is
\* logged and dropped
ProgressCallback ==
    /\ pc = "callback"
    /\ \E raises \in BOOLEAN :
        /\ callbackLog' = Append(callbackLog, <<i, total_courses>>)
        /\ callbackRaised' = (callbackRaised \/ raises)
        /\ pc' = callback_next(raises)
    /\ UNCHANGED trace
    /\ UNCHANGED storeVars
    /\ UNCHANGED <<config, urls, progress, cancel_requested, run,
                   progress_callback, session, playwright, browser, context,
                   page, total_courses, i, success_count, failed_count,
                   processor_cancelled, pending, result, validateOutcome,
                   acquired, closeAttempted, closeFailed, loginCount,
                   authOutcome, handed, extrasHanded, results, markedInRun,
                   cancelBoundary, cancelHist>>

\* lines 166-183: final report and `return failed_count == 0`
Report ==
    /\ pc = "report"
    /\ pending' = BoolStr(run_result(success_count, failed_count, total_courses))
    /\ pc' = "close_session"
    /\ UNCHANGED obsVars
    /\ UNCHANGED storeVars
    /\ UNCHANGED <<config, urls, progress, cancel_requested, run,
                   progress_callback, session, playwright, browser, context,
                   page, total_courses, i, success_count, failed_count,
                   processor_cancelled, result, histVars, cancelHist>>

\* lines 185-195: every except clause logs the error and returns False
Except ==
    /\ pc = "except"
    /\ pending' = "False"
    /\ pc' = "close_session"
    /\ UNCHANGED obsVars
    /\ UNCHANGED storeVars
    /\ UNCHANGED <<config, urls, progress, cancel_requested, run,
                   progress_callback, session, playwright, browser, context,
                   page, total_courses, i, success_count, failed_count,
                   processor_cancelled, result, histVars, cancelHist>>

\* lines 199-201: `await session.close()` stands outside any try, so what it
\* raises leaves the finally block and replaces the pending return
CloseSession ==
    /\ pc = "close_session"
    /\ IF session # None
       THEN /\ closeAttempted' = closeAttempted \cup {"session"}
            /\ \E ok \in BOOLEAN :
                IF ok
                THEN /\ session' = "closed"
                     /\ pc' = "close_context"
                     /\ UNCHANGED <<closeFailed, result>>
                ELSE /\ closeFailed' = closeFailed \cup {"session"}
                     /\ result' = "raised"
                     /\ pc' = "done"
                     /\ UNCHANGED session
       ELSE /\ pc' = "close_context"
            /\ UNCHANGED <<session, closeAttempted, closeFailed, result>>
    /\ UNCHANGED obsVars
    /\ UNCHANGED storeVars
    /\ UNCHANGED <<config, urls, progress, cancel_requested, run,
                   progress_callback, playwright, browser, context, page,
                   total_courses, i, success_count, failed_count,
                   processor_cancelled, pending, validateOutcome, acquired,
                   loginCount, authOutcome, handed, extrasHanded, results,
                   callbackLog, markedInRun, cancelBoundary, cancelHist>>

\* lines 203-208: context.close() inside try/except Exception
CloseContext ==
    /\ pc = "close_context"
    /\ IF context # None
       THEN /\ closeAttempted' = closeAttempted \cup {"context"}
            /\ \E ok \in BOOLEAN :
                IF ok
                THEN context' = "closed" /\ UNCHANGED closeFailed
                ELSE closeFailed' = closeFailed \cup {"context"}
                     /\ UNCHANGED context
       ELSE UNCHANGED <<context, closeAttempted, closeFailed>>
    /\ pc' = "stop_playwright"
    /\ UNCHANGED obsVars
    /\ UNCHANGED storeVars
    /\ UNCHANGED <<config, urls, progress, cancel_requested, run,
                   progress_callback, session, playwright, browser, page,
                   total_courses, i, success_count, failed_count,
                   processor_cancelled, pending, result, validateOutcome,
                   acquired, loginCount, authOutcome, handed, extrasHanded,
                   results, callbackLog, markedInRun, cancelBoundary,
                   cancelHist>>

\* lines 210-216: playwright.stop() inside try/except Exception, then the
\* pending return value reaches the caller
StopPlaywright ==
    /\ pc = "stop_playwright"
    /\ IF playwright # None
       THEN /\ closeAttempted' = closeAttempted \cup {"playwright"}
            /\ \E ok \in BOOLEAN :
                IF ok
                THEN /\ playwright' = "closed"
                     /\ browser' = IF browser = None THEN None ELSE "closed"
                     /\ UNCHANGED closeFailed
                ELSE /\ closeFailed' = closeFailed \cup {"playwright"}
                     /\ UNCHANGED <<playwright, browser>>
       ELSE UNCHANGED <<playwright, browser, closeAttempted, closeFailed>>
    /\ result' = pending
    /\ pc' = "done"
    /\ UNCHANGED obsVars
    /\ UNCHANGED storeVars
    /\ UNCHANGED <<config, urls, progress, cancel_requested, run,
                   progress_callback, session, context, page, total_courses,
                   i, success_count, failed_count, processor_cancelled,
                   pending, validateOutcome, acquired, loginCount,
                   authOutcome, handed, extrasHanded, results, callbackLog,
                   markedInRun, cancelBoundary, cancelHist>>

Next ==
    \/ request_cancel
    \/ start_downloads
    \/ HealthCheck
    \/ GetCourseUrls
    \/ OpenSession
    \/ StartPlaywright
    \/ LaunchBrowser
    \/ NewPage
    \/ PerformAuthentication
    \/ LoopNext
    \/ ProcessCourse
    \/ ProcessorMarks
    \/ PrimaryEnds
    \/ ExtrasEnds
    \/ ProgressCallback
    \/ Report
    \/ Except
    \/ CloseSession
    \/ CloseContext
    \/ StopPlaywright

Spec == Init /\ [][Next]_vars

TypeOK ==
    /\ cancel_requested \in BOOLEAN
    /\ run \in 0..MaxRuns
    /\ i \in 0..MaxCourses
    /\ success_count + failed_count = Len(results)
    /\ result \in {None, "True", "False", "raised"}

\* ------------------------------------------------------------ properties
AuthFailures == {"no_credentials", "login_error"}
Failed(rs) == {k \in 1..Len(rs) : ~rs[k]}

\* C1: in every run that acquired the session, the context and the engine,
\* all three cleanup steps are attempted, whichever of them raises.
C1_AllCleanupStepsAttempted ==
    (pc = "done" /\ acquired = Resources) => closeAttempted = Resources

\* C2: a failure of a cleanup step is never re-raised: a run in which a
\* cleanup step failed still ends by returning a boolean.
C2_CleanupFailureNeverRaised ==
    (pc = "done" /\ closeFailed # {}) => result \in {"True", "False"}

\* C3: when the health check fails (validate reports problems or raises)
\* the run has returned False and no session, engine, browser or context
\* was acquired at any point of the run.
C3_HealthFailureAcquiresNothing ==
    validateOutcome \in {"invalid", "raise"} =>
        /\ pc = "done" /\ result = "False"
        /\ acquired = {}
        /\ session = None /\ playwright = None /\ browser = None
        /\ context = None /\ page = None
C3_Witness ==
    pc = "done" /\ validateOutcome = "raise" /\ result = "False" /\ run = 1

\* C4 (as claimed): a run whose authentication fails has acquired no
\* session, engine or context.
C4_AuthFailureBeforeResources ==
    authOutcome \in AuthFailures =>
        acquired = {} /\ session = None /\ playwright = None /\ context = None
\* C4 (amended): authentication fails only after the session, the engine
\* and the context were all acquired, and its failure is reported (the
\* except clause logs it) while all three are still held open.
C4_AuthFailureHoldsResources ==
    authOutcome \in AuthFailures =>
        /\ acquired = Resources
        /\ pc = "except" =>
             session = "open" /\ playwright = "open" /\ context = "open"
C4_Witness ==
    pc = "except" /\ authOutcome = "login_error" /\ session = "open"

\* C5: a failing or raising course does not stop the later courses (absent
\* cancellation every course of the queue is attempted), the failure count
\* is the number of failed courses, and a run with a failed course returns
\* False.
C5_FailureIsolatedAndCounted ==
    (pc = "done" /\ authOutcome = "ok") =>
        /\ ~cancel_requested => Len(results) = total_courses
        /\ failed_count = Cardinality(Failed(results))
        /\ Failed(results) # {} => result = "False"

\* C6: when cancellation was requested before the boundary check of course
\* k, no course k..n is handed to a processor, at most k-1 courses are
\* counted, and the keys marked during the run are still complete.
C6_CancelSkipsRemaining ==
    cancelBoundary # 0 =>
        /\ \A j \in 1..Len(handed) : handed[j] < cancelBoundary
        /\ \A j \in 1..Len(extrasHanded) : extrasHanded[j] < cancelBoundary
        /\ success_count + failed_count < cancelBoundary
        /\ Len(results) < cancelBoundary
        /\ \A key \in markedInRun : is_completed(key)
C6_Witness ==
    /\ pc = "done" /\ total_courses = 3 /\ cancelBoundary = 2
    /\ handed = <<1>> /\ results = <<TRUE>> /\ markedInRun # {}
    /\ result = "True"

\* C7: whenever request_cancel comes, at most one course finishes after it
\* (the one in flight or the one past its boundary check) and no course
\* other than the one past its boundary check is started after it.
C7_AtMostOneCourseAfterCancel ==
    /\ Cardinality(finishedAfterCancel) <= 1
    /\ finishedAfterCancel # {} =>
          /\ cancelPc \in {"process_course", "primary", "extras"}
          /\ finishedAfterCancel = {cancelCourse}
    /\ startedAfterCancel # {} =>
          /\ cancelPc = "process_course"
          /\ startedAfterCancel = {cancelCourse}
C7_Witness ==
    /\ pc = "done" /\ cancelPc = "primary" /\ cancelCourse = <<1, 1>>
    /\ finishedAfterCancel = {<<1, 1>>} /\ total_courses = 3 /\ run = 2

\* C8: a run that reached the queue returns True only if every attempted
\* course succeeded, and returns False only if an attempted course failed
\* (skipped courses never make it False).
C8_SuccessIffNoAttemptFailed ==
    (pc = "done" /\ authOutcome = "ok") =>
        /\ Len(results) = Len(handed)
        /\ result = "True" => Failed(results) = {}
        /\ result = "False" => Failed(results) # {}
C8_Witness ==
    /\ pc = "done" /\ authOutcome = "ok" /\ result = "True"
    /\ Len(results) = 1 /\ total_courses = 3 /\ cancel_requested

\* C9: with an empty queue the run returns False and opens no session and
\* launches no engine, browser or context.
C9_EmptyQueueAcquiresNothing ==
    Len(urls) = 0 =>
        /\ acquired = {}
        /\ session = None /\ playwright = None /\ browser = None
        /\ context = None
        /\ pc = "done" => result = "False"
C9_Witness ==
    Len(urls) = 0 /\ pc = "done" /\ validateOutcome = "valid"
                  /\ result = "False"

\* C10: login happens once per run, after the resources were acquired and
\* before any course is handed to a processor; when it fails no course is
\* handed to a processor and the run returns False.
C10_LoginOnceThenCourses ==
    /\ loginCount <= 1
    /\ loginCount = 1 => acquired = Resources
    /\ handed # <<>> => loginCount = 1 /\ authOutcome = "ok"
    /\ authOutcome \in AuthFailures =>
          /\ handed = <<>>
          /\ pc = "done" => result = "False"

\* C11: when acquisition fails after the session was opened (no page was
\* created) the run returns False and the release of every resource that
\* was acquired has been attempted by the time it returns.
C11_PartialAcquisitionReleased ==
    (pc = "done" /\ "session" \in acquired /\ page = None) =>
        /\ result = "False"
        /\ acquired \subseteq closeAttempted

\* C12: processor invocations are totally ordered: a started invocation is
\* the last event or is followed at once by its own end (never two in
\* flight), the extras processor starts right after the successful end of
\* the primary processor of the same course, and the primary processors
\* get the courses in queue order.
Primaries == SelectSeq(trace, LAMBDA e : e.ev = "start_primary")
C12_InvocationsTotallyOrdered ==
    /\ \A k \in 1..Len(trace) :
        /\ trace[k].ev = "start_primary" /\ k < Len(trace) =>
              trace[k + 1].ev = "end_primary"
              /\ trace[k + 1].course = trace[k].course
        /\ trace[k].ev = "start_extras" =>
              /\ k > 1
              /\ trace[k - 1] = Event("end_primary", trace[k].course, TRUE)
              /\ k < Len(trace) =>
                    /\ trace[k + 1].ev = "end_extras"
                    /\ trace[k + 1].course = trace[k].course
        /\ trace[k].ev = "end_primary" =>
              k > 1 /\ trace[k - 1].ev = "start_primary"
        /\ trace[k].ev = "end_extras" =>
              k > 1 /\ trace[k - 1].ev = "start_extras"
    /\ \A k \in 1..Len(Primaries) : Primaries[k].course = urls[k]
    /\ pc \in {"primary", "extras"} <=>
          (trace # <<>> /\ trace[Len(trace)].ev \in {"start_primary", "start_extras"})
C12_Witness ==
    /\ pc = "done" /\ Len(handed) = 3 /\ Len(extrasHanded) = 2
    /\ Len(trace) = 10

\* C13: with kind pdf and the extras flag of the stored pdfConfig section
\* (baixarMateriaisDeVideo, the flag _get_default_config defines) set, every
\* successful primary processor is followed by an extras processor on the
\* same course.
C13_ExtrasFlagRunsExtras ==
    (config.downloadType = "pdf" /\ config.pdfConfig.baixarMateriaisDeVideo) =>
        \A k \in 1..Len(trace) :
            (trace[k].ev = "end_primary" /\ trace[k].ok) =>
                /\ k < Len(trace)
                /\ trace[k + 1] = Event("start_extras", trace[k].course, TRUE)

\* C14: the callback is called after each attempted course with
\* <<index, total>>, and a raising callback leaves the counts exact, lets
\* the following courses be processed and never makes the run return False.
Fractions(n) == [k \in 1..n |-> <<k, total_courses>>]
C14_CallbackNeverFailsRun ==
    /\ ~progress_callback => callbackLog = <<>>
    /\ (progress_callback /\ pc # "callback") =>
          callbackLog = Fractions(Len(results))
    /\ pc = "callback" => callbackLog = Fractions(Len(results) - 1)
    /\ callbackRaised =>
          /\ success_count + failed_count = Len(results)
          /\ failed_count = Cardinality(Failed(results))
          /\ pc # "except"
    /\ (pc = "done" /\ callbackRaised) =>
          /\ ~cancel_requested => Len(results) = total_courses
          /\ result = "False" => Failed(results) # {}
          /\ result = "raised" => closeFailed = {"session"}
C14_Witness ==
    /\ pc = "done" /\ callbackRaised /\ result = "True"
    /\ Len(callbackLog) = 3

\* C29: the cancel flag is never cleared, and a start_downloads call that
\* begins after request_cancel and reaches the course loop hands no course
\* to a processor and returns True.
C29_CancelledManagerReturnsTrue ==
    /\ cancelPc # None => cancel_requested
    /\ (/\ pc = "done"
        /\ cancel_requested
        /\ cancelCourse[1] < run
        /\ authOutcome = "ok") =>
            /\ handed = <<>>
            /\ result = "True"

\* C30 as stated: a course whose primary processor returned True is counted
\* as a success, whatever its extras processor did.
C30_PrimaryDecidesOutcome ==
    LET ends == SelectSeq(trace, LAMBDA e : e.ev = "end_primary")
    IN  \A k \in 1..Len(results) : results[k] = ends[k].ok

\* C30: a course is counted as a success exactly when its primary
\* processor returned True and its extras processor, if one ran, returned
\* (True or False) rather than raised; an extras processor that raises
\* makes the course a failure.
C30_ExtrasRaiseFailsCourse ==
    LET ends == SelectSeq(trace, LAMBDA e : e.ev = "end_primary")
    IN  \A k \in 1..Len(results) :
            results[k] =
               (/\ ends[k].ok
                /\ \A j \in 1..Len(trace) :
                      (trace[j].ev = "end_extras"
                       /\ trace[j].course = ends[k].course) => trace[j].ok)
C30_Witness ==
    /\ pc = "done"
    /\ Len(results) = 3
    /\ Len(extrasHanded) = 3
    /\ results = <<TRUE, FALSE, TRUE>>

\* ======================================================= ProgressManager
\* config_manager.py lines 329-420: the ledger in memory (`progress`) and
\* its two files, under mark_completed, clear, and a stop of the process at
\* any point followed by the construction of a new ProgressManager.

LedgerKeys == UNION {KeysOf(c) : c \in 1..MaxCourses}

\* _load_progress: a missing file, a file json.load rejects and a file that
\* cannot be read all give the empty ledger
load_progress(disk, readable) ==
    IF readable /\ disk[PROGRESS_FILE].kind = "full"
    THEN disk[PROGRESS_FILE].data
    ELSE {}

InitLedger == Init /\ config = DefaultConfig /\ urls = <<>>

\* mark_completed, line 401, then save_progress begins
MarkCompleted ==
    /\ lpc = "idle"
    /\ \E key \in LedgerKeys :
        /\ progress' = mark_completed(progress, key)
        /\ ledgerOp' = [op |-> "mark", key |-> key]
    /\ lprev' = ledger_disk[PROGRESS_FILE]
    /\ lpc' = "open_tmp"
    /\ UNCHANGED <<cfgVars, queueVars, credVars>>
    /\ UNCHANGED <<config, urls, orchRest, ledger_disk, markedDone>>

\* clear, line 406, then save_progress begins
ClearProgress ==
    /\ lpc = "idle"
    /\ progress' = {}
    /\ ledgerOp' = [op |-> "clear", key |-> <<0, 0>>]
    /\ markedDone' = {}
    /\ lprev' = ledger_disk[PROGRESS_FILE]
    /\ lpc' = "open_tmp"
    /\ UNCHANGED <<cfgVars, queueVars, credVars>>
    /\ UNCHANGED <<config, urls, orchRest, ledger_disk>>

\* save_progress is left (normally or through one of its except clauses,
\* which log and return) and mark_completed / clear returns to its caller
SaveReturns ==
    /\ lpc' = "idle"
    /\ markedDone' = IF ledgerOp.op = "mark"
                     THEN markedDone \cup {ledgerOp.key}
                     ELSE markedDone

\* line 369: open(temp_file, 'w') creates or truncates the temp file
SaveOpenTemp ==
    /\ lpc = "open_tmp"
    /\ \E ok \in BOOLEAN :
        IF ok
        THEN /\ ledger_disk' = [ledger_disk EXCEPT ![temp_file] = Partial({})]
             /\ lpc' = "dump"
             /\ UNCHANGED markedDone
        ELSE SaveReturns /\ UNCHANGED ledger_disk
    /\ UNCHANGED <<cfgVars, queueVars, credVars>>
    /\ UNCHANGED <<config, urls, progress, orchRest, ledgerOp, lprev>>

\* line 370: json.dump writes the whole ledger, or fails part-way
SaveDump ==
    /\ lpc = "dump"
    /\ \E ok \in BOOLEAN :
        IF ok
        THEN /\ ledger_disk' = [ledger_disk EXCEPT ![temp_file] = Full(progress)]
             /\ lpc' = "replace"
             /\ UNCHANGED markedDone
        ELSE SaveReturns /\ UNCHANGED ledger_disk
    /\ UNCHANGED <<cfgVars, queueVars, credVars>>
    /\ UNCHANGED <<config, urls, progress, orchRest, ledgerOp, lprev>>

\* line 372: temp_file.replace(PROGRESS_FILE)
SaveReplace ==
    /\ lpc = "replace"
    /\ \E ok \in BOOLEAN :
        ledger_disk' = IF ok
                       THEN replace(ledger_disk, temp_file, PROGRESS_FILE, {})
                       ELSE ledger_disk
    /\ SaveReturns
    /\ UNCHANGED <<cfgVars, queueVars, credVars>>
    /\ UNCHANGED <<config, urls, progress, orchRest, ledgerOp, lprev>>

\* the process stops at any point; ProgressManager() of the next process
\* loads progress.json (lines 334-362)
RestartLedger ==
    /\ \E readable \in BOOLEAN :
        progress' = load_progress(ledger_disk, readable)
    /\ lpc' = "idle"
    /\ ledgerOp' = NoOp
    /\ UNCHANGED <<cfgVars, queueVars, credVars>>
    /\ UNCHANGED <<config, urls, orchRest, ledger_disk, markedDone, lprev>>

NextLedger ==
    \/ MarkCompleted
    \/ ClearProgress
    \/ SaveOpenTemp
    \/ SaveDump
    \/ SaveReplace
    \/ RestartLedger

SpecLedger == InitLedger /\ [][NextLedger]_vars

\* C15: every key whose mark_completed has returned is complete, in the
\* process that marked it and in every ProgressManager built afterwards
\* from progress.json.
C15_MarkedSurvivesRestart ==
    lpc = "idle" => \A key \in markedDone : is_completed(key)

\* C16: progress.json never holds a partial document; while save_progress
\* is under way it still holds the previous ledger, and once the call has
\* returned it holds the previous ledger or the new one.
C16_ProgressFileNeverPartial ==
    /\ ledger_disk[PROGRESS_FILE].kind # "partial"
    /\ lpc \in {"open_tmp", "dump", "replace"} =>
          ledger_disk[PROGRESS_FILE] = lprev
    /\ (lpc = "idle" /\ ledgerOp.op # "none") =>
          ledger_disk[PROGRESS_FILE] \in {lprev, Full(progress)}
C16_Witness ==
    /\ lpc = "replace"
    /\ ledger_disk[temp_file] = Full(progress)
    /\ lprev.kind = "full" /\ lprev.data # progress
    /\ ledger_disk[PROGRESS_FILE] = lprev

\* C17: a key whose mark_completed has returned stays complete over every
\* step (marks, saves, reloads) that is not part of clear().
C17_CompletionMonotonic ==
    [][ ledgerOp'.op # "clear" =>
          \A key \in markedDone : is_completed(key) => key \in progress' ]_vars

\* ========================================================= ConfigManager
\* config_manager.py lines 17-157: the configuration in memory (`config`)
\* and its files, under set, save_config, and a stop of the process at any
\* point followed by the construction of a new ConfigManager.

\* _load_config, lines 70-89: what the load does with config.json
load_kind_no_repair(disk, readable) ==
    IF disk[CONFIG_FILE].kind = "full" /\ readable THEN "loaded" ELSE "default"
load_kind(disk, readable) ==
    IF disk[CONFIG_FILE].kind = "absent" THEN "default"
    ELSE IF ~readable THEN "default"
    ELSE IF disk[CONFIG_FILE].kind = "partial" THEN "repair"
    ELSE "loaded"

InitConfig == Init /\ config = DefaultConfig /\ urls = <<>>

\* the calls of ConfigManager.set the model draws: the kind of download, a
\* flag the pdfConfig section of the defaults does not hold, and a flag of
\* a section the configuration of the model does not hold yet
SetCalls ==
    {<<<<"downloadType">>, t>> : t \in DownloadTypes}
    \cup {<<<<"pdfConfig", "baixarExtrasComPdf">>, b>> : b \in BOOLEAN}
    \cup {<<<<"videoConfig", "baixarExtras">>, TRUE>>}

\* ConfigManager.set(*keys, value=value)
SetConfig ==
    /\ cpc = "idle"
    /\ \E call \in SetCalls : config' = set(config, call[1], call[2])
    /\ saveOutcome' = "none"
    /\ loadInfo' = NoLoad
    /\ UNCHANGED <<urls, progress, orchRest, ledgerVars,
                   queueVars, credVars, config_disk, cpc,
                   cmode, lastSaved>>

\* save_config is left through one of its except clauses, which re-raise;
\* _backup_and_repair_config catches what its save_config raises (line 108)
ConfigSaveFails(mode) ==
    /\ cpc' = "idle"
    /\ cmode' = "none"
    /\ saveOutcome' = IF mode = "save" THEN "raised" ELSE "swallowed"
    /\ loadInfo' = IF mode = "save" THEN NoLoad
                   ELSE [loadInfo EXCEPT !.writeFailed = TRUE]

\* lines 142-144: an existing config.json is moved over config.json.bak
SaveRotate ==
    /\ cpc \in {"idle", "save_rotate"}
    /\ LET mode == IF cpc = "idle" THEN "save" ELSE cmode
       IN  \E ok \in BOOLEAN :
            IF ok \/ config_disk[CONFIG_FILE].kind = "absent"
            THEN /\ config_disk' =
                       IF config_disk[CONFIG_FILE].kind = "absent"
                       THEN config_disk
                       ELSE replace(config_disk, CONFIG_FILE, BAK_FILE, NoDoc)
                 /\ cpc' = "save_open"
                 /\ cmode' = mode
                 /\ saveOutcome' = "none"
                 /\ loadInfo' = IF mode = "save" THEN NoLoad ELSE loadInfo
            ELSE ConfigSaveFails(mode) /\ UNCHANGED config_disk
    /\ UNCHANGED <<config, urls, progress, orchRest, ledgerVars,
                   queueVars, credVars, lastSaved>>

\* line 146: open(CONFIG_FILE, 'w') creates an empty config.json
SaveOpen ==
    /\ cpc = "save_open"
    /\ \E ok \in BOOLEAN :
        IF ok
        THEN /\ config_disk' =
                   [config_disk EXCEPT ![CONFIG_FILE] = Partial(NoDoc)]
             /\ cpc' = "save_dump"
             /\ UNCHANGED <<cmode, saveOutcome, loadInfo>>
        ELSE ConfigSaveFails(cmode) /\ UNCHANGED config_disk
    /\ UNCHANGED <<config, urls, progress, orchRest, ledgerVars,
                   queueVars, credVars, lastSaved>>

\* line 147: json.dump writes the whole configuration, or fails part-way
SaveDumpConfig ==
    /\ cpc = "save_dump"
    /\ \E ok \in BOOLEAN :
        IF ok
        THEN /\ config_disk' =
                   [config_disk EXCEPT ![CONFIG_FILE] = Full(json_dump(config))]
             /\ lastSaved' = [has |-> TRUE, data |-> config]
             /\ saveOutcome' = "ok"
             /\ cpc' = "idle"
             /\ cmode' = "none"
             /\ UNCHANGED loadInfo
        ELSE ConfigSaveFails(cmode) /\ UNCHANGED <<config_disk, lastSaved>>
    /\ UNCHANGED <<config, urls, progress, orchRest, ledgerVars,
                   queueVars, credVars>>

\* the process stops at any point; ConfigManager() of the next process
\* runs _load_config (lines 63-89)
RestartConfig ==
    /\ \E readable \in BOOLEAN :
        LET k == load_kind(config_disk, readable)
            stopped == cpc \in {"save_open", "save_dump"} /\ cmode = "save"
                       /\ lastSaved.has
            info == [kind |-> IF config_disk[CONFIG_FILE].kind = "partial"
                                 /\ readable
                              THEN "corrupt" ELSE "plain",
                     stopped |-> stopped,
                     old |-> IF stopped THEN lastSaved.data ELSE NoConfig,
                     new |-> IF stopped THEN config ELSE NoConfig,
                     renameFailed |-> FALSE, writeFailed |-> FALSE,
                     afterSave |-> k = "loaded" /\ cpc = "idle"
                                   /\ saveOutcome = "ok",
                     saved |-> IF saveOutcome = "ok" THEN config ELSE NoConfig]
        IN  /\ loadInfo' = info
            /\ config' = IF k = "loaded"
                         THEN json_load(config_disk[CONFIG_FILE].data)
                         ELSE DefaultConfig
            /\ cpc' = IF k = "repair" THEN "repair_rename" ELSE "idle"
            /\ cmode' = IF k = "repair" THEN "repair" ELSE "none"
    /\ saveOutcome' = "none"
    /\ UNCHANGED <<urls, progress, orchRest, ledgerVars,
                   queueVars, credVars, config_disk,
                   lastSaved>>

\* _backup_and_repair_config, lines 93-105: the corrupt file is renamed to
\* a backup named after the time, then save_config writes the defaults
RepairRename ==
    /\ cpc = "repair_rename"
    /\ \E timestamp \in Timestamps, ok \in BOOLEAN :
        IF ok
        THEN /\ config_disk' = replace(config_disk, CONFIG_FILE,
                                       backup_path(timestamp), NoDoc)
             /\ cpc' = "save_rotate"
             /\ UNCHANGED <<cmode, loadInfo>>
        ELSE /\ loadInfo' = [loadInfo EXCEPT !.renameFailed = TRUE]
             /\ cpc' = "idle"
             /\ cmode' = "none"
             /\ UNCHANGED config_disk
    /\ UNCHANGED <<config, urls, progress, orchRest, ledgerVars,
                   queueVars, credVars, lastSaved,
                   saveOutcome>>

NextConfig ==
    \/ SetConfig
    \/ SaveRotate
    \/ SaveOpen
    \/ SaveDumpConfig
    \/ RestartConfig
    \/ RepairRename

SpecConfig == InitConfig /\ [][NextConfig]_vars

\* C18: whenever no save is under way, what the last successful save wrote
\* is in config.json or in config.json.bak, and a save_config call that
\* returned without raising has written config.json.
C18_LastSaveKept ==
    cpc = "idle" =>
        /\ lastSaved.has =>
              \/ config_disk[CONFIG_FILE] = Full(json_dump(lastSaved.data))
              \/ config_disk[BAK_FILE] = Full(json_dump(lastSaved.data))
        /\ saveOutcome = "ok" =>
              config_disk[CONFIG_FILE] = Full(json_dump(config))

\* C19: a load that follows a stop of the process during save_config
\* returns the configuration saved before or the one being saved.
C19_SaveAtomic ==
    (cpc = "idle" /\ loadInfo.stopped) => config \in {loadInfo.old, loadInfo.new}

C21_SaveLoadRoundTrip ==
    (cpc = "idle" /\ loadInfo.afterSave) => config = loadInfo.saved
C21_Witness ==
    /\ cpc = "idle" /\ loadInfo.afterSave
    /\ config.downloadType = "video"
    /\ ~config.pdfConfig.baixarMateriaisDeVideo
    /\ "baixarExtrasComPdf" \in DOMAIN config.pdfConfig
    /\ ~config.pdfConfig.baixarExtrasComPdf
    /\ "videoConfig" \in DOMAIN config
    /\ config.videoConfig.baixarExtras

\* ====================================================== CourseUrlManager
\* config_manager.py lines 423-630: the queue in memory (`urls`, a list of
\* references to entry dicts), its file, the callers that hold what
\* get_all returned, and a stop of the process at any point followed by
\* the construction of a new CourseUrlManager.

InitQueue == Init /\ config = DefaultConfig /\ urls = <<>>

\* before the first start of this version, an earlier version may have
\* left its list of plain strings
OlderVersionWrote ==
    /\ ~qlive /\ qop = "none"
    /\ queue_disk.kind = "absent"
    /\ queue_disk' \in LegacyFiles
    /\ UNCHANGED <<qheap, returned, qlive, qop, qarg, qret, qwrite, qload>>
    /\ UNCHANGED <<config, urls, progress, orchRest, ledgerVars, cfgVars,
                   credVars>>

\* CourseUrlManager() of a new process: _load_urls, lines 432-475
LoadUrls ==
    /\ \E readable \in BOOLEAN, outcome \in WriteOutcomes :
        LET items == IF queue_disk.kind = "full" /\ readable
                     THEN queue_disk.data ELSE <<>>
            loaded == [k \in 1..Len(items) |->
                         IF isinstance_str(items[k])
                         THEN NewEntry(items[k].url)
                         ELSE load_object(items[k])]
            has_changes == \E k \in 1..Len(items) : isinstance_str(items[k])
        IN  /\ urls' = [k \in 1..Len(loaded) |-> k]
            /\ qheap' = [r \in Refs |->
                            IF r <= Len(loaded) THEN loaded[r] ELSE NoEntry]
            /\ queue_disk' = IF has_changes
                             THEN save_raw(queue_disk, loaded, outcome)
                             ELSE queue_disk
            /\ qwrite' = IF has_changes THEN outcome ELSE "none"
            /\ qload' = [legacy |-> has_changes, items |-> items,
                         before |-> queue_disk,
                         second |-> qop = "load" /\ qload.legacy]
    /\ returned' = <<>>
    /\ qlive' = TRUE
    /\ qop' = "load"
    /\ qarg' = NoUrl
    /\ qret' = "None"
    /\ UNCHANGED <<config, progress, orchRest, ledgerVars, cfgVars, credVars>>

\* add_url, lines 493-522
AddUrl ==
    /\ qlive
    /\ \E given \in AddInputs, outcome \in WriteOutcomes :
        LET url == strip(given)
            ref == Len(urls) + Len(returned) + 1
            heap == [qheap EXCEPT ![ref] = NewEntry(url)]
            list == Append(urls, ref)
            new == Renumber(list, returned, heap)
        IN  /\ qarg' = given
            /\ IF ~validate_url(url) \/ is_duplicate(Entries(urls, qheap), url)
               THEN /\ qret' = "False"
                    /\ qwrite' = "none"
                    /\ UNCHANGED <<urls, qheap, returned, queue_disk>>
               ELSE /\ urls' = new.urls
                    /\ qheap' = new.heap
                    /\ returned' = new.returned
                    /\ queue_disk' =
                          save_raw(queue_disk, Entries(list, heap), outcome)
                    /\ qwrite' = outcome
                    /\ qret' = "True"
    /\ qop' = "add_url"
    /\ qload' = NoQueueLoad
    /\ UNCHANGED qlive
    /\ UNCHANGED <<config, progress, orchRest, ledgerVars, cfgVars, credVars>>

\* remove_url, lines 524-543
RemoveUrl ==
    /\ qlive
    /\ \E url \in {UrlA, UrlB, UrlLookalike}, outcome \in WriteOutcomes :
        LET list == SelectSeq(urls, LAMBDA r : qheap[r].url # url)
            new == Renumber(list, returned, qheap)
        IN  /\ qarg' = url
            /\ urls' = new.urls
            /\ qheap' = new.heap
            /\ returned' = new.returned
            /\ IF Len(list) < Len(urls)
               THEN /\ queue_disk' =
                          save_raw(queue_disk, Entries(list, qheap), outcome)
                    /\ qwrite' = outcome
                    /\ qret' = "True"
               ELSE /\ qret' = "False"
                    /\ qwrite' = "none"
                    /\ UNCHANGED queue_disk
    /\ qop' = "remove_url"
    /\ qload' = NoQueueLoad
    /\ UNCHANGED qlive
    /\ UNCHANGED <<config, progress, orchRest, ledgerVars, cfgVars, credVars>>

\* CourseUrlManager.clear, lines 554-558
ClearUrls ==
    /\ qlive
    /\ \E outcome \in WriteOutcomes :
        /\ queue_disk' = save_raw(queue_disk, <<>>, outcome)
        /\ qwrite' = outcome
    /\ LET new == Renumber(<<>>, returned, qheap)
       IN  /\ urls' = new.urls
           /\ qheap' = new.heap
           /\ returned' = new.returned
    /\ qop' = "clear"
    /\ qarg' = NoUrl
    /\ qret' = "None"
    /\ qload' = NoQueueLoad
    /\ UNCHANGED qlive
    /\ UNCHANGED <<config, progress, orchRest, ledgerVars, cfgVars, credVars>>

\* get_all, lines 545-552: list.copy() makes a new list of the same dicts
\* (the list the caller held before is dropped)
GetAll ==
    /\ qlive
    /\ LET new == Renumber(urls, get_all, qheap)
       IN  /\ returned' = new.returned
           /\ qheap' = new.heap
    /\ qop' = "get_all"
    /\ qarg' = NoUrl
    /\ qret' = "list"
    /\ qwrite' = "none"
    /\ qload' = NoQueueLoad
    /\ UNCHANGED <<urls, queue_disk, qlive>>
    /\ UNCHANGED <<config, progress, orchRest, ledgerVars, cfgVars, credVars>>

\* the caller of get_all removes the last element of the list it was given
CallerPops ==
    /\ qlive /\ returned # <<>>
    /\ LET new == Renumber(urls, SubSeq(returned, 1, Len(returned) - 1), qheap)
       IN  /\ returned' = new.returned
           /\ qheap' = new.heap
    /\ qop' = "caller"
    /\ qarg' = NoUrl
    /\ qret' = "None"
    /\ qwrite' = "none"
    /\ qload' = NoQueueLoad
    /\ UNCHANGED <<urls, queue_disk, qlive>>
    /\ UNCHANGED <<config, progress, orchRest, ledgerVars, cfgVars, credVars>>

\* the caller of get_all assigns to the title of the first entry of the
\* list it was given
CallerEditsEntry ==
    /\ qlive
    /\ returned # <<>>
    /\ qheap' = [qheap EXCEPT ![returned[1]].title = "edited"]
    /\ qop' = "caller"
    /\ qarg' = NoUrl
    /\ qret' = "None"
    /\ qwrite' = "none"
    /\ qload' = NoQueueLoad
    /\ UNCHANGED <<urls, queue_disk, returned, qlive>>
    /\ UNCHANGED <<config, progress, orchRest, ledgerVars, cfgVars, credVars>>

NextQueue ==
    \/ OlderVersionWrote
    \/ LoadUrls
    \/ AddUrl
    \/ RemoveUrl
    \/ ClearUrls
    \/ GetAll
    \/ CallerPops
    \/ CallerEditsEntry

SpecQueue == InitQueue /\ [][NextQueue]_vars

\* the queue as its callers see it: the entries in order
Queue == Entries(urls, qheap)

\* the host is the platform's domain or a sub-domain of it
OnPlatform(netloc) ==
    /\ Len(netloc) >= Len(Platform)
    /\ SubSeq(netloc, Len(netloc) - Len(Platform) + 1, Len(netloc)) = Platform
\* the url breaks one of the four rules of the gate
BreaksRule(url) ==
    \/ url.scheme \notin {"http", "https"}
    \/ ~OnPlatform(url.netloc)
    \/ "cursos" \notin Range(url.path)
    \/ url.path = <<>>
    \/ url.path[Len(url.path)] # "aulas"

\* C22: a call of add_url with a url that is already in the queue, or that
\* breaks the scheme, domain, courses-segment or lessons-suffix rule,
\* returns False and leaves the queue in memory and course-urls.json as
\* they were.
C22_AddUrlHardGate ==
    [][ (/\ qop' = "add_url"
         /\ \/ BreaksRule(strip(qarg'))
            \/ \E k \in 1..Len(Queue) : Queue[k].url = strip(qarg')) =>
            (/\ qret' = "False"
             /\ Queue' = Queue
             /\ queue_disk' = queue_disk) ]_vars

C24_MigrationIdempotent ==
    /\ (qop = "load" /\ qload.legacy) =>
          /\ Len(Queue) = Len(qload.items)
          /\ \A k \in 1..Len(Queue) :
                Queue[k] = NewEntry(qload.items[k].url)
          /\ queue_disk = Full(dump_urls(Queue))
    /\ (qop = "load" /\ qload.second) =>
          /\ ~qload.legacy
          /\ Len(Queue) = Len(qload.items)
          /\ queue_disk = qload.before

\* C25: what the caller of get_all does to the list it was given, or to
\* the entries in it, leaves the queue of the CourseUrlManager as it was.
C25_GetAllValueCopy ==
    [][ qop' = "caller" => Queue' = Queue ]_vars

\* C26: a call of add_url, remove_url or clear whose write of
\* course-urls.json failed returns False or raises (and so do
\* mark_completed, ProgressManager.clear and save_config).
C26_WriteFailureReported ==
    (qop \in {"add_url", "remove_url", "clear"}
     /\ qwrite \in {"open_failed", "dump_failed"}) =>
        qret \in {"False", "raised"}

\* ============================================ credential and validation
\* config_manager.py lines 24-61 and 159-326: the key file, the cipher of
\* the process, the keyring, get_password, set_password and validate, under
\* calls of set, the loss of the key file and the start of a new process
\* (which finds the configuration as it was, saved).

\* self.config.get(key), a falsy value standing for a missing one
get_top(key, default) == IF key \in DOMAIN config THEN config[key] ELSE default

\* Fernet(key).decrypt(token): the text, or InvalidToken for another key
decrypt(key, token) ==
    IF token.key = key THEN [kind |-> "value", text |-> token.text]
    ELSE [kind |-> "InvalidToken", text |-> ""]

\* lines 180-183: `except InvalidToken: ... return None`
invalid_token_uncaught(outcome) ==
    IF outcome.kind = "InvalidToken" THEN [kind |-> "raised", text |-> ""]
    ELSE outcome
except_invalid_token(outcome) ==
    IF outcome.kind = "InvalidToken" THEN NoResult ELSE outcome

\* get_password, lines 159-192; kerr: the keyring raises KeyringError
get_password(kerr) ==
    LET email == get_top("email", <<>>)
    IN  IF email = <<>> THEN NoResult
        ELSE IF kerr THEN NoResult
        ELSE IF keyring[email] = NoToken THEN NoResult
        ELSE except_invalid_token(decrypt(cipher, keyring[email]))

\* the list `errors` after the five checks of validate, each check giving
\* the messages it appends
problems_first_only(checks) ==
    LET hit == {k \in 1..Len(checks) : checks[k] # <<>>}
    IN  IF hit = {} THEN <<>>
        ELSE checks[CHOOSE k \in hit : \A m \in hit : k <= m]
problems(checks) ==
    checks[1] \o checks[2] \o checks[3] \o checks[4] \o checks[5]

\* validate, lines 281-326 (the messages without accents and without the
\* value they quote)
validate(kerr) ==
    LET email == get_top("email", <<>>)
        password == get_password(kerr)
        download_type == get_top("downloadType", "None")
        pdf_folder == get("pdfConfig", "pastaDownloads", <<>>)
        video_folder == get("videoConfig", "pastaDownloads", <<>>)
        errors == problems(<<
            IF email = <<>> THEN <<"Email nao configurado">>
            ELSE IF "@" \notin Range(email) THEN <<"Email invalido">>
            ELSE <<>>,
            IF password.kind # "value" THEN <<"Senha nao configurada">>
            ELSE <<>>,
            IF download_type \notin {"pdf", "video"}
            THEN <<"Tipo de download invalido">> ELSE <<>>,
            IF pdf_folder # <<>> /\ parent(pdf_folder) \notin ExistingDirs
            THEN <<"Pasta pai de PDFs nao existe">> ELSE <<>>,
            IF video_folder # <<>> /\ parent(video_folder) \notin ExistingDirs
            THEN <<"Pasta pai de videos nao existe">> ELSE <<>> >>)
    IN  [raised |-> password.kind = "raised",
         ok |-> Len(errors) = 0,
         errors |-> errors]

InitCred == Init /\ config = DefaultConfig /\ urls = <<>>

\* the calls of ConfigManager.set on the keys validate reads
CredSetCalls ==
    {<<<<"email">>, e>> : e \in Emails}
    \cup {<<<<"downloadType">>, t>> : t \in DownloadTypes \cup {"audio"}}
    \cup {<<<<"pdfConfig", "pastaDownloads">>, f>> : f \in Folders}
    \cup {<<<<"videoConfig", "pastaDownloads">>, f>> :
             f \in {g \in Folders : parent(g) \notin ExistingDirs}}

\* ConfigManager.set(*keys, value=value)
SetForValidate ==
    /\ \E call \in CredSetCalls : config' = set(config, call[1], call[2])
    /\ credOp' = [op |-> "set", kerr |-> FALSE, raised |-> FALSE]
    /\ pwResult' = NoResult /\ verrors' = <<>> /\ vok' = FALSE
    /\ UNCHANGED <<key_file, cipher, keyring>>
    /\ UNCHANGED <<urls, progress, orchRest, ledgerVars, cfgVars, queueVars>>

\* set_password, lines 194-223
SetPassword ==
    /\ \E password \in Passwords \cup {""}, kerr \in BOOLEAN :
        LET email == get_top("email", <<>>)
            fails == email = <<>> \/ password = "" \/ kerr
        IN  /\ keyring' = IF fails THEN keyring
                          ELSE [keyring EXCEPT ![email] = Token(cipher, password)]
            /\ pwResult' = IF fails THEN [kind |-> "raised", text |-> ""]
                           ELSE NoResult
            /\ credOp' = [op |-> "set_password", kerr |-> kerr, raised |-> fails]
    /\ verrors' = <<>> /\ vok' = FALSE
    /\ UNCHANGED <<key_file, cipher>>
    /\ UNCHANGED <<config, urls, progress, orchRest, ledgerVars, cfgVars,
                   queueVars>>

\* delete_password, lines 225-237
DeletePassword ==
    /\ \E kerr \in BOOLEAN :
        LET email == get_top("email", <<>>)
        IN  /\ keyring' = IF email = <<>> \/ kerr THEN keyring
                          ELSE [keyring EXCEPT ![email] = NoToken]
            /\ credOp' = [op |-> "delete_password", kerr |-> kerr,
                          raised |-> FALSE]
    /\ pwResult' = NoResult /\ verrors' = <<>> /\ vok' = FALSE
    /\ UNCHANGED <<key_file, cipher>>
    /\ UNCHANGED <<config, urls, progress, orchRest, ledgerVars, cfgVars,
                   queueVars>>

\* the file .key is deleted or the program is moved without it
KeyFileLost ==
    /\ key_file # 0
    /\ cipher < MaxKeys
    /\ key_file' = 0
    /\ credOp' = [op |-> "key_lost", kerr |-> FALSE, raised |-> FALSE]
    /\ pwResult' = NoResult /\ verrors' = <<>> /\ vok' = FALSE
    /\ UNCHANGED <<cipher, keyring>>
    /\ UNCHANGED <<config, urls, progress, orchRest, ledgerVars, cfgVars,
                   queueVars>>

\* ConfigManager() of a new process: _get_cipher, lines 29-61, reads the
\* key of .key or generates a new key and writes it
RestartCred ==
    /\ cipher' = IF key_file = 0 THEN cipher + 1 ELSE key_file
    /\ key_file' = cipher'
    /\ credOp' = [op |-> "start", kerr |-> FALSE, raised |-> FALSE]
    /\ pwResult' = NoResult
    /\ verrors' = <<>>
    /\ vok' = FALSE
    /\ UNCHANGED keyring
    /\ UNCHANGED <<config, urls, progress, orchRest, ledgerVars, cfgVars,
                   queueVars>>

\* a call of get_password
GetPassword ==
    /\ \E kerr \in BOOLEAN :
        /\ pwResult' = get_password(kerr)
        /\ credOp' = [op |-> "get_password", kerr |-> kerr,
                      raised |-> get_password(kerr).kind = "raised"]
    /\ verrors' = <<>> /\ vok' = FALSE
    /\ UNCHANGED <<key_file, cipher, keyring>>
    /\ UNCHANGED <<config, urls, progress, orchRest, ledgerVars, cfgVars,
                   queueVars>>

\* a call of validate
Validate ==
    /\ \E kerr \in BOOLEAN :
        /\ verrors' = validate(kerr).errors
        /\ vok' = validate(kerr).ok
        /\ credOp' = [op |-> "validate", kerr |-> kerr,
                      raised |-> validate(kerr).raised]
    /\ pwResult' = NoResult
    /\ UNCHANGED <<key_file, cipher, keyring>>
    /\ UNCHANGED <<config, urls, progress, orchRest, ledgerVars, cfgVars,
                   queueVars>>

NextCred ==
    \/ SetForValidate
    \/ SetPassword
    \/ DeletePassword
    \/ KeyFileLost
    \/ RestartCred
    \/ GetPassword
    \/ Validate

SpecCred == InitCred /\ [][NextCred]_vars

\* the password of the configured email was stored under a key that is
\* not the key of this process
Orphaned ==
    LET email == get_top("email", <<>>)
    IN  /\ email # <<>>
        /\ keyring[email] # NoToken
        /\ keyring[email].key # cipher

\* C27: once the password was stored and the key file was lost (the next
\* start generated a new key), get_password returns None without raising,
\* validate returns with the password among its problems, and the health
\* check, given that outcome, fails.
C27_LostKeyGivesNoPassword ==
    Orphaned =>
        /\ credOp.op = "get_password" =>
              ~credOp.raised /\ pwResult = NoResult
        /\ credOp.op = "validate" =>
              /\ ~credOp.raised
              /\ ~vok
              /\ "Senha nao configurada" \in Range(verrors)
              /\ ~health_check(IF vok THEN "valid" ELSE "invalid")
C27_Witness ==
    /\ Orphaned
    /\ credOp.op = "validate"
    /\ verrors = <<"Senha nao configurada">>

\* C28: the list validate returns holds exactly one problem per violated
\* check (email missing or without "@", password not retrievable,
\* downloadType neither pdf nor video, parent of the PDF folder missing,
\* parent of the video folder missing), and its flag is true exactly when
\* the list is empty.
C28_ValidateCollectsAll ==
    credOp.op = "validate" =>
        LET email == get_top("email", <<>>)
            pdf == get("pdfConfig", "pastaDownloads", <<>>)
            video == get("videoConfig", "pastaDownloads", <<>>)
            emailBad == email = <<>> \/ \A k \in 1..Len(email) : email[k] # "@"
            passwordBad == \/ email = <<>>
                           \/ credOp.kerr
                           \/ keyring[email] = NoToken
                           \/ keyring[email].key # cipher
            typeBad == get_top("downloadType", "None") \notin DownloadTypes
            pdfBad == pdf # <<>> /\ parent(pdf) \notin ExistingDirs
            videoBad == video # <<>> /\ parent(video) \notin ExistingDirs
            count(b) == IF b THEN 1 ELSE 0
        IN  /\ Len(verrors) = count(emailBad) + count(passwordBad)
                               + count(typeBad) + count(pdfBad) + count(videoBad)
            /\ emailBad <=> \E k \in 1..Len(verrors) :
                  verrors[k] \in {"Email nao configurado", "Email invalido"}
            /\ passwordBad <=> "Senha nao configurada" \in Range(verrors)
            /\ typeBad <=> "Tipo de download invalido" \in Range(verrors)
            /\ pdfBad <=> "Pasta pai de PDFs nao existe" \in Range(verrors)
            /\ videoBad <=> "Pasta pai de videos nao existe" \in Range(verrors)
            /\ vok <=> verrors = <<>>
C28_Witness ==
    /\ credOp.op = "validate"
    /\ Len(verrors) = 5
====
